---- MODULE Spec2Model ----
(***************************************************************************)
(* Marketplace Validator API: the /validate endpoint (backend/main.py),    *)
(* MarketplaceValidator (backend/validator.py) and the pydantic result     *)
(* models (backend/models.py).                                             *)
(*                                                                         *)
(* Python strings are modelled as sequences of atoms.  In a listing every  *)
(* atom is one character; in the prompt and in the producer's text an atom *)
(* is a character or an indivisible run of characters (a JSON punctuation  *)
(* mark, a number literal, a word, the markdown fence marker)     .       *)
(* Numbers are kept in tenths, so that 5.0 is 50 and 7.5 is 75.            *)
(***************************************************************************)
EXTENDS Integers, Sequences, FiniteSets, TLC

----------------------------------------------------------------------------
(* Bounds of the model *)

\* A listing is built from at most MaxBlocks blocks of five characters.
MaxBlocks == 2

----------------------------------------------------------------------------
(* Python str primitives *)

Whitespace == {" ", "\n"}

S(a) == <<a>>

\* The k-th smallest element of a set of numbers
Kth(ns, k) == CHOOSE n \in ns : Cardinality({ m \in ns : m <= n }) = k

\* The positions of s that hold no whitespace
Inked(s) == { i \in 1..Len(s) : s[i] \notin Whitespace }

RECURSIVE LStrip(_)
\* str.lstrip(): one step for each leading whitespace character
LStrip(s) ==
    IF s = <<>> THEN s
    ELSE IF Head(s) \in Whitespace THEN LStrip(Tail(s)) ELSE s

\* str.strip(): from the first to the last character that is no whitespace
Strip(s) ==
    IF \A i \in 1..Len(s) : s[i] \in Whitespace THEN <<>>
    ELSE LET first == CHOOSE i \in 1..Len(s) :
                        s[i] \notin Whitespace /\ \A j \in 1..(i - 1) : s[j] \in Whitespace
             last  == CHOOSE i \in 1..Len(s) :
                        s[i] \notin Whitespace /\ \A j \in (i + 1)..Len(s) : s[j] \in Whitespace
         IN  SubSeq(s, first, last)

\* str.split(sep), sep one character: the pieces between the separators, empty
\* pieces kept; one more piece than separators
SplitOn(s, sep) ==
    LET seps == { i \in 1..Len(s) : s[i] = sep }
        n    == Cardinality(seps)
        cut(k) == IF k = 0 THEN 0 ELSE IF k = n + 1 THEN Len(s) + 1 ELSE Kth(seps, k)
    IN  [ k \in 1..(n + 1) |-> SubSeq(s, cut(k - 1) + 1, cut(k) - 1) ]

\* str.split(): the maximal runs of non-whitespace characters
Split(s) ==
    LET starts == { i \in Inked(s) : i = 1 \/ s[i - 1] \in Whitespace }
        end(i) == CHOOSE j \in i..Len(s) :
                    /\ j = Len(s) \/ s[j + 1] \in Whitespace
                    /\ \A k \in i..j : s[k] \notin Whitespace
    IN  [ k \in 1..Cardinality(starts) |-> SubSeq(s, Kth(starts, k), end(Kth(starts, k))) ]

\* s.startswith(p)
StartsWith(s, p) == Len(s) >= Len(p) /\ SubSeq(s, 1, Len(p)) = p

\* The positions from `from` on at which old occurs in s
Occurrences(s, old, from) ==
    { i \in from..(Len(s) - Len(old) + 1) : SubSeq(s, i, i + Len(old) - 1) = old }

RECURSIVE ReplaceFrom(_, _, _, _)
ReplaceFrom(s, old, new, from) ==
    LET occ == Occurrences(s, old, from) IN
    IF occ = {} THEN SubSeq(s, from, Len(s))
    ELSE LET i == CHOOSE j \in occ : \A k \in occ : j <= k IN
         SubSeq(s, from, i - 1) \o new \o ReplaceFrom(s, old, new, i + Len(old))

\* s.replace(old, new), old not empty: every non-overlapping occurrence,
\* leftmost first
Replace(s, old, new) == ReplaceFrom(s, old, new, 1)

\* s[:n]
Prefix(s, n) == SubSeq(s, 1, IF Len(s) < n THEN Len(s) ELSE n)

\* sum(len(w) for w in ws): the characters of all the words
SumLen(ws) ==
    Cardinality(UNION { { <<i, j>> : j \in 1..Len(ws[i]) } : i \in 1..Len(ws) })

----------------------------------------------------------------------------
(* Outcome of a Python call: a returned value or a raised exception *)

Return(v) == [raises |-> FALSE, value |-> v]
Raise(e)  == [raises |-> TRUE, exc |-> e]

----------------------------------------------------------------------------
(* MarketplaceValidator: text metrics *)

_calculate_word_count(text) == Len(Split(text))

NonBlank(s) == Strip(s) # <<>>

\* Floats are avoided by cross-multiplying: a / b > k  iff  a > k * b  (b > 0).
_estimate_reading_level(text) ==
    LET sentences == SplitOn(text, ".")
        words     == Split(text)
        nonEmpty  == SelectSeq(sentences, NonBlank)
    IN  IF sentences = <<>> \/ words = <<>> THEN Return(S("Unknown"))
        ELSE IF Len(nonEmpty) = 0 THEN Raise("ZeroDivisionError")
        ELSE IF Len(words) > 20 * Len(nonEmpty) \/ SumLen(words) > 6 * Len(words)
             THEN Return(S("Grade 12+"))
        ELSE IF Len(words) > 15 * Len(nonEmpty) \/ SumLen(words) > 5 * Len(words)
             THEN Return(S("Grade 10-12"))
        ELSE Return(S("Grade 8 or below"))

----------------------------------------------------------------------------
(* JSON: decoded values and json.loads *)

JStr(s)   == [t |-> "str", s |-> s]
JNum(n)   == [t |-> "num", n |-> n]
JNull     == [t |-> "null"]
JList(xs) == [t |-> "list", xs |-> xs]
JDict(d)  == [t |-> "dict", d |-> d]

EmptyDict == [k \in {} |-> JNull]

Quote == "\""
\* The three-backtick markdown fence marker, one atom.
Fence == "<fence>"

\* The number literals that occur in the model and their values, in tenths.
NumberValue ==
    ("0" :> 0) @@ ("5" :> 50) @@ ("7.5" :> 75) @@ ("10" :> 100) @@
    ("11" :> 110) @@ ("-1" :> -10) @@ ("42" :> 420)

NumberLiterals == DOMAIN NumberValue

NoParse == [ok |-> FALSE]
Parsed(v, rest) == [ok |-> TRUE, val |-> v, rest |-> rest]

\* The characters up to the closing quote; a raw line break inside a string
\* literal is an invalid control character.
ScanString(s) ==
    IF \A i \in 1..Len(s) : s[i] # Quote THEN NoParse
    ELSE LET q == CHOOSE i \in 1..Len(s) :
                    s[i] = Quote /\ \A j \in 1..(i - 1) : s[j] # Quote
         IN  IF \E i \in 1..(q - 1) : s[i] = "\n" THEN NoParse
             ELSE Parsed(SubSeq(s, 1, q - 1), SubSeq(s, q + 1, Len(s)))

RECURSIVE ParseValue(_)
RECURSIVE ParseMembers(_, _)
RECURSIVE ParseElements(_, _)

\* The scanner reads one value and hands back what follows it.  Each step is
\* taken only when the one before succeeded.
ParseMembers(s0, d) ==
    LET s  == LStrip(s0)
        k  == IF s # <<>> /\ Head(s) = Quote THEN ScanString(Tail(s)) ELSE NoParse
        s1 == IF k.ok THEN LStrip(k.rest) ELSE <<>>
        v  == IF s1 # <<>> /\ Head(s1) = ":" THEN ParseValue(Tail(s1)) ELSE NoParse
        s2 == IF v.ok THEN LStrip(v.rest) ELSE <<>>
    IN  IF s2 = <<>> THEN NoParse
        ELSE IF Head(s2) = "}" THEN Parsed(JDict((k.val :> v.val) @@ d), Tail(s2))
        ELSE IF Head(s2) = "," THEN ParseMembers(Tail(s2), (k.val :> v.val) @@ d)
        ELSE NoParse

ParseElements(s0, xs) ==
    LET v  == ParseValue(s0)
        s2 == IF v.ok THEN LStrip(v.rest) ELSE <<>>
    IN  IF s2 = <<>> THEN NoParse
        ELSE IF Head(s2) = "]" THEN Parsed(JList(Append(xs, v.val)), Tail(s2))
        ELSE IF Head(s2) = "," THEN ParseElements(Tail(s2), Append(xs, v.val))
        ELSE NoParse

ParseValue(s0) ==
    LET s  == LStrip(s0)
        s1 == LStrip(Tail(s))
        r  == ScanString(Tail(s))
    IN  CASE s = <<>> -> NoParse
          [] s # <<>> /\ Head(s) = "{" ->
                IF s1 # <<>> /\ Head(s1) = "}" THEN Parsed(JDict(EmptyDict), Tail(s1))
                ELSE ParseMembers(s1, EmptyDict)
          [] s # <<>> /\ Head(s) = "[" ->
                IF s1 # <<>> /\ Head(s1) = "]" THEN Parsed(JList(<<>>), Tail(s1))
                ELSE ParseElements(s1, <<>>)
          [] s # <<>> /\ Head(s) = Quote ->
                IF r.ok THEN Parsed(JStr(r.val), r.rest) ELSE NoParse
          [] s # <<>> /\ Head(s) \in NumberLiterals ->
                Parsed(JNum(NumberValue[Head(s)]), Tail(s))
          [] s # <<>> /\ Head(s) = "null" -> Parsed(JNull, Tail(s))
          [] OTHER -> NoParse

\* json.loads(text)
json_loads(text) ==
    LET v == ParseValue(text) IN
    IF v.ok /\ LStrip(v.rest) = <<>> THEN Return(v.val) ELSE Raise("JSONDecodeError")

----------------------------------------------------------------------------
(* backend/models.py: the pydantic models *)

ValidationCategory ==
    { S("Regulatory & Compliance"), S("Content Quality"), S("User Experience"),
      S("Brand & Tone Alignment"), S("Prohibited Language"), S("Ethical Standards") }

SeverityLiteral == { S("low"), S("medium"), S("high") }
StatusLiteral   == { S("compliant"), S("non_compliant") }

\* Field(..., min_length=10, max_length=5000) of ValidationRequest.listing
MinListingLength == 10
MaxListingLength == 5000

\* compliance_score: ge=0, le=10, in tenths
ScoreMin == 0
ScoreMax == 100

ValidationRequestOK(listing) ==
    Len(listing) >= MinListingLength /\ Len(listing) <= MaxListingLength

IsStr(v) == v.t = "str"
Has(d, k) == S(k) \in DOMAIN d
Get(d, k) == d[S(k)]

\* A required str field
StrField(d, k) == Has(d, k) /\ IsStr(Get(d, k))

\* float(value): a number, or a string that spells one
FloatOK(v) == v.t = "num" \/ (v.t = "str" /\ Len(v.s) = 1 /\ v.s[1] \in NumberLiterals)
FloatOf(v) == IF v.t = "num" THEN v.n ELSE NumberValue[v.s[1]]

\* int(value): a number without a fractional part
IntOK(v) == FloatOK(v) /\ FloatOf(v) % 10 = 0
IntOf(v) == FloatOf(v) \div 10

ValidationIssueOK(v) ==
    /\ v.t = "dict"
    /\ StrField(v.d, "category") /\ Get(v.d, "category").s \in ValidationCategory
    /\ StrField(v.d, "rule_violated")
    /\ StrField(v.d, "current_text")
    /\ StrField(v.d, "issue")
    /\ StrField(v.d, "suggested_fix")
    /\ StrField(v.d, "severity") /\ Get(v.d, "severity").s \in SeverityLiteral

ValidationIssue(v) ==
    [ category      |-> Get(v.d, "category").s,
      rule_violated |-> Get(v.d, "rule_violated").s,
      current_text  |-> Get(v.d, "current_text").s,
      issue         |-> Get(v.d, "issue").s,
      suggested_fix |-> Get(v.d, "suggested_fix").s,
      severity      |-> Get(v.d, "severity").s ]

IssuesOK(d) ==
    ~Has(d, "issues") \/
    ( /\ Get(d, "issues").t = "list"
      /\ \A i \in 1..Len(Get(d, "issues").xs) : ValidationIssueOK(Get(d, "issues").xs[i]) )

\* Optional[str] with default None
None == <<"None">>
ReadingLevelOK(d) ==
    ~Has(d, "reading_level") \/ Get(d, "reading_level").t \in {"str", "null"}

\* ValidationResponse(**d): the validated model, or pydantic's ValidationError.
\* Keys that are no field of the model are ignored.
ValidationResponse(d) ==
    IF /\ StrField(d, "status") /\ Get(d, "status").s \in StatusLiteral
       /\ Has(d, "compliance_score") /\ FloatOK(Get(d, "compliance_score"))
       /\ FloatOf(Get(d, "compliance_score")) >= ScoreMin
       /\ FloatOf(Get(d, "compliance_score")) <= ScoreMax
       /\ IssuesOK(d)
       /\ StrField(d, "suggestions")
       /\ Has(d, "word_count") /\ IntOK(Get(d, "word_count"))
       /\ ReadingLevelOK(d)
    THEN Return(
        [ status           |-> Get(d, "status").s,
          compliance_score |-> FloatOf(Get(d, "compliance_score")),
          issues           |-> IF Has(d, "issues")
                               THEN [ i \in 1..Len(Get(d, "issues").xs) |->
                                        ValidationIssue(Get(d, "issues").xs[i]) ]
                               ELSE <<>>,
          suggestions      |-> Get(d, "suggestions").s,
          word_count       |-> IntOf(Get(d, "word_count")),
          reading_level    |-> IF Has(d, "reading_level") /\ IsStr(Get(d, "reading_level"))
                               THEN Get(d, "reading_level").s
                               ELSE None ])
    ELSE Raise("ValidationError")

----------------------------------------------------------------------------
(* MarketplaceValidator: construction and the prompt *)

Placeholder == S("{{ listing }}")

\* marketplace_validator_prompt.txt: a policy text with one placeholder for
\* the listing.
TemplateFile == <<"<policy standards>", "\n", "Listing:", " ">> \o Placeholder \o <<"\n">>

structured_output_instruction ==
    << "\n", "\n",
       "IMPORTANT: You must respond with a valid JSON object in the following format:",
       "\n", "<format of the JSON object>", "\n",
       "Only return the JSON object, no other text.", "\n" >>

_get_fallback_prompt ==
    << "You are an AI validator for credit card marketplace listings. Validate the listing against these standards:",
       "\n", "<the six standards>", "\n",
       "Return a JSON object with validation results in the specified format." >>

\* open(...) raises FileNotFoundError when the file is missing
_load_validation_prompt(file) ==
    IF file = "present"
    THEN TemplateFile \o structured_output_instruction
    ELSE _get_fallback_prompt

\* A constructor that tests "self.api_key is None": an empty key passes.
MarketplaceValidator_key_is_None(apiKey, file) ==
    IF apiKey = "unset"
    THEN Raise("ValueError")
    ELSE Return([state |-> "ready", validation_prompt |-> _load_validation_prompt(file)])

\* self.api_key = api_key or os.getenv('OPENAI_API_KEY'); if not self.api_key: raise
MarketplaceValidator(apiKey, file) ==
    IF apiKey \in {"unset", "empty"}
    THEN Raise("ValueError")
    ELSE Return([state |-> "ready", validation_prompt |-> _load_validation_prompt(file)])

\* self.validation_prompt.replace("{{ listing }}", listing)
full_prompt_of(validation_prompt, listing) == Replace(validation_prompt, Placeholder, listing)

----------------------------------------------------------------------------
(* MarketplaceValidator.validate_listing *)

FallbackScore == 50
SystemErrorScore == 0
ExcerptLength == 200

\* Either the model, or the exception that computing one of its arguments raised
_create_fallback_response(listing, llm_response) ==
    LET rl == _estimate_reading_level(listing) IN
    IF rl.raises THEN rl
    ELSE Return(
        [ status           |-> S("non_compliant"),
          compliance_score |-> FallbackScore,
          issues           |-> << [ category      |-> S("Content Quality"),
                                    rule_violated |-> S("Response Format"),
                                    current_text  |-> S("N/A"),
                                    issue         |-> S("Unable to parse validation response"),
                                    suggested_fix |-> S("Please review the listing manually"),
                                    severity      |-> S("medium") ] >>,
          suggestions      |-> S("Validation completed but response format was unexpected: ")
                               \o Prefix(llm_response, ExcerptLength) \o S("..."),
          word_count       |-> _calculate_word_count(listing),
          reading_level    |-> rl.value ])

\* The body of "except Exception as e"
system_error_response(listing, e) ==
    LET rl == _estimate_reading_level(listing) IN
    IF rl.raises THEN rl
    ELSE Return(
        [ status           |-> S("non_compliant"),
          compliance_score |-> SystemErrorScore,
          issues           |-> << [ category      |-> S("Content Quality"),
                                    rule_violated |-> S("System Error"),
                                    current_text  |-> S("N/A"),
                                    issue         |-> <<"Validation failed: ", e>>,
                                    suggested_fix |-> S("Please try again or contact support"),
                                    severity      |-> S("high") ] >>,
          suggestions      |-> S("System error occurred during validation. Please try again."),
          word_count       |-> _calculate_word_count(listing),
          reading_level    |-> rl.value ])

\* Clean up response text - remove markdown code blocks if present
clean_response_text(response_text) ==
    IF StartsWith(response_text, <<Fence, "json">>)
    THEN Strip(Replace(Replace(response_text, <<Fence, "json">>, <<>>), <<Fence>>, <<>>))
    ELSE IF StartsWith(response_text, <<Fence>>)
    THEN Strip(Replace(response_text, <<Fence>>, <<>>))
    ELSE response_text

\* Python truthiness of a decoded JSON value
Falsy(v) ==
    \/ v.t = "null"
    \/ v.t = "str"  /\ v.s = <<>>
    \/ v.t = "num"  /\ v.n = 0
    \/ v.t = "list" /\ v.xs = <<>>
    \/ v.t = "dict" /\ DOMAIN v.d = {}

\* validation_data.setdefault('word_count', ...): the producer's count is kept.
with_word_count_setdefault(d, listing) ==
    d @@ (S("word_count") :> JNum(10 * _calculate_word_count(listing)))

\* validation_data['word_count'] = self._calculate_word_count(listing)
with_word_count(d, listing) ==
    (S("word_count") :> JNum(10 * _calculate_word_count(listing))) @@ d

\* if 'reading_level' not in validation_data or not validation_data['reading_level']
needs_reading_level(d) == ~Has(d, "reading_level") \/ Falsy(Get(d, "reading_level"))

\* The inner try block, after the call returned response_text: the model, or
\* the exception that leaves the block (json.JSONDecodeError is handled in it).
parse_response(listing, response_text) ==
    LET cleaned == clean_response_text(response_text)
        loaded  == json_loads(cleaned)
    IN  IF loaded.raises THEN _create_fallback_response(listing, cleaned)
        ELSE IF loaded.value.t # "dict" THEN Raise("AttributeError")
        ELSE LET d1 == with_word_count(loaded.value.d, listing)
                 rl == _estimate_reading_level(listing)
             IN  IF needs_reading_level(d1)
                 THEN IF rl.raises THEN rl
                      ELSE ValidationResponse((S("reading_level") :> JStr(rl.value)) @@ d1)
                 ELSE ValidationResponse(d1)

\* The producer's outcomes: the call raises, or returns a message whose
\* content is a text or None.
CallRaises    == [kind |-> "raises"]
NoContent     == [kind |-> "none"]
Content(text) == [kind |-> "text", text |-> text]

\* validate_listing from the return of the external call on: the model it
\* returns, or the exception it raises.
validate_listing(listing, outcome) ==
    LET inner ==
            IF outcome.kind = "raises" THEN Raise("APIError")
            ELSE IF outcome.kind = "none" THEN Raise("AttributeError")
            ELSE parse_response(listing, Strip(outcome.text))
    IN  IF inner.raises THEN system_error_response(listing, inner.exc) ELSE inner

----------------------------------------------------------------------------
(* The inputs: listings and the producer's texts *)

Blocks ==
    { <<"a", "a", "a", "a", "a">>,
      <<".", ".", ".", ".", ".">>,
      <<" ", " ", " ", " ", " ">>,
      <<"a", ".", " ", "a", " ">>,
      <<" ", ".", "\n", ".", " ">>,
      <<"a", "a", " ", "a", "a">>,
      <<"a", " ", " ", " ", " ">> }

RECURSIVE ListingsOf(_)
ListingsOf(k) ==
    IF k = 0 THEN { <<>> }
    ELSE { l \o b : l \in ListingsOf(k - 1), b \in Blocks }

\* One block is shorter than the request model allows, two are not.
Listings == { l : l \in UNION { ListingsOf(k) : k \in 1..MaxBlocks } }

RECURSIVE Join(_)
Join(parts) ==
    IF parts = <<>> THEN <<>>
    ELSE IF Len(parts) = 1 THEN parts[1]
    ELSE parts[1] \o <<",", " ">> \o Join(Tail(parts))

\* How the producer writes JSON
Str(s)        == <<Quote>> \o s \o <<Quote>>
Num(lit)      == <<lit>>
Member(k, v)  == Str(S(k)) \o <<":", " ">> \o v
Object(ms)    == <<"{">> \o Join(ms) \o <<"}">>
Array(xs)     == <<"[">> \o Join(xs) \o <<"]">>

IssueText(category, severity) ==
    Object(<< Member("category", Str(S(category))),
              Member("rule_violated", Str(S("Superlatives"))),
              Member("current_text", Str(<<"amazing", " ", "rewards">>)),
              Member("issue", Str(S("Exaggerated claim"))),
              Member("suggested_fix", Str(S("rewards"))),
              Member("severity", Str(S(severity))) >>)

GoodIssues ==
    Array(<< IssueText("Prohibited Language", "medium"),
             IssueText("Regulatory & Compliance", "high") >>)

MStatus     == Member("status", Str(S("non_compliant")))
MScore      == Member("compliance_score", Num("7.5"))
MIssues     == Member("issues", GoodIssues)
MSuggest    == Member("suggestions", Str(<<"Disclose", " ", "the", " ", "APR">>))
MWordCount  == Member("word_count", Num("42"))
MReading    == Member("reading_level", Str(S("Grade 9")))

\* Payloads that satisfy the result shape
PFull          == Object(<<MStatus, MScore, MIssues, MSuggest, MWordCount, MReading>>)
PNoReading     == Object(<<MStatus, MScore, MIssues, MSuggest, MWordCount>>)
PNullReading   == Object(<<MStatus, MScore, MIssues, MSuggest, MWordCount,
                           Member("reading_level", <<"null">>)>>)
PEmptyReading  == Object(<<MStatus, MScore, MIssues, MSuggest, MWordCount,
                           Member("reading_level", Str(<<>>))>>)
PNoWordCount   == Object(<<MStatus, MScore, MIssues, MSuggest, MReading>>)
PTextWordCount == Object(<<MStatus, MScore, MIssues, MSuggest, MReading,
                           Member("word_count", Str(S("many")))>>)
PFractionWordCount ==
    Object(<<MStatus, MScore, MIssues, MSuggest, MReading, Member("word_count", Num("7.5"))>>)
PCompliant ==
    Object(<<Member("status", Str(S("compliant"))), Member("compliance_score", Num("10")),
             Member("issues", Array(<<>>)), MSuggest, MWordCount, MReading>>)
PNoIssues ==
    Object(<<Member("status", Str(S("compliant"))), Member("compliance_score", Num("0")),
             MSuggest, MWordCount>>)
PFenceInside ==
    Object(<<MStatus, MScore, MIssues, MWordCount, MReading,
             Member("suggestions", Str(<<"Avoid", " ", Fence, " ", "and", " ", Fence, "json">>))>>)

WellFormedPayloads ==
    { PFull, PNoReading, PNullReading, PEmptyReading, PNoWordCount, PTextWordCount,
      PFractionWordCount, PCompliant, PNoIssues, PFenceInside }

\* Payloads that are JSON but violate the result shape
IllShapedPayloads ==
    { Object(<<Member("status", Str(S("maybe"))), MScore, MIssues, MSuggest, MWordCount, MReading>>),
      Object(<<MStatus, Member("compliance_score", Num("11")), MIssues, MSuggest, MWordCount, MReading>>),
      Object(<<MStatus, Member("compliance_score", Num("-1")), MIssues, MSuggest, MWordCount>>),
      Object(<<MStatus, Member("compliance_score", Str(S("high"))), MIssues, MSuggest, MWordCount, MReading>>),
      Object(<<MStatus, MScore, MSuggest, MWordCount, MReading,
               Member("issues", Array(<<IssueText("Other", "medium")>>))>>),
      Object(<<MStatus, MScore, MSuggest, MWordCount,
               Member("issues", Array(<<IssueText("Content Quality", "critical")>>))>>),
      Object(<<MStatus, MScore, MIssues, MWordCount, MReading>>),
      Object(<<MScore, MIssues, MSuggest, MWordCount, MReading>>),
      Object(<<>>),
      Array(<<>>),
      Array(<<Object(<<MStatus, MScore, MSuggest>>)>>),
      Num("5"),
      Str(S("compliant")),
      <<"null">> }

\* Texts that are no JSON document
NonJsonTexts ==
    { <<>>,
      <<" ", "\n">>,
      <<"Sorry,", " ", "I", " ", "cannot", " ", "help">>,
      <<"{">> \o MStatus \o <<",">>,
      Object(<<MStatus, MScore>>) \o <<" ", "Done">>,
      <<"{">> \o MStatus \o <<",", " ">> \o <<"}">> }

Payloads == { p : p \in WellFormedPayloads \cup IllShapedPayloads }

\* The producer wraps its payload in a markdown code block, tagged or not
Tagged(p)   == <<Fence, "json", "\n">> \o p \o <<"\n", Fence>>
Untagged(p) == <<Fence, "\n">> \o p \o <<"\n", Fence>>
Padded(p)   == <<"\n", " ">> \o p \o <<" ", "\n">>

ProducerTexts ==
    { t : t \in Payloads \cup NonJsonTexts
                \cup { Tagged(p) : p \in Payloads \cup NonJsonTexts }
                \cup { Untagged(p) : p \in Payloads \cup NonJsonTexts }
                \cup { Padded(p) : p \in Payloads } }

----------------------------------------------------------------------------
(* backend/main.py: the process *)

VARIABLES
    OPENAI_API_KEY,   \* the environment: "unset", "empty" or "set"
    template_file,    \* the prompt file on disk: "present" or "missing"
    validator,        \* the module global: unset until the module is loaded
    pc,               \* "boot", "idle", "calling" (the external call is pending), "responded"
    listing,          \* request.listing of the request in progress
    full_prompt,      \* the user message of the pending external call
    calls,            \* invocations of the external service for the request in progress
    outcome,          \* how the external call of the request in progress ended
    response          \* the HTTP response to the request in progress

vars == <<OPENAI_API_KEY, template_file, validator, pc, listing, full_prompt, calls,
          outcome, response>>

env == <<OPENAI_API_KEY, template_file>>

HTTP_200_OK == 200
HTTP_422_UNPROCESSABLE_ENTITY == 422
HTTP_500_INTERNAL_SERVER_ERROR == 500
HTTP_503_SERVICE_UNAVAILABLE == 503

NoResponse == [http |-> 0]
NoOutcome == [kind |-> "pending"]
HTTPException(code) == [http |-> code]
Ok(body) == [http |-> HTTP_200_OK, body |-> body]

Init ==
    /\ OPENAI_API_KEY \in {"unset", "empty", "set"}
    /\ template_file \in {"present", "missing"}
    /\ validator = [state |-> "unset"]
    /\ pc = "boot"
    /\ listing = <<>>
    /\ full_prompt = <<>>
    /\ calls = 0
    /\ outcome = NoOutcome
    /\ response = NoResponse

\* try: validator = MarketplaceValidator()  except ValueError: validator = None
validator_at_startup(apiKey, file) ==
    LET v == MarketplaceValidator(apiKey, file) IN
    IF v.raises THEN [state |-> "None"] ELSE v.value

LoadModule ==
    /\ pc = "boot"
    /\ validator' = validator_at_startup(OPENAI_API_KEY, template_file)
    /\ pc' = "idle"
    /\ UNCHANGED <<env, listing, full_prompt, calls, outcome, response>>

\* if not validator
validator_missing(v) == v.state = "None"

\* The request body does not satisfy ValidationRequest: the endpoint is not entered.
RejectRequest(l) ==
    /\ pc = "idle"
    /\ ~ValidationRequestOK(l)
    /\ listing' = l
    /\ response' = HTTPException(HTTP_422_UNPROCESSABLE_ENTITY)
    /\ pc' = "responded"
    /\ UNCHANGED <<env, validator, full_prompt, calls, outcome>>

\* POST /validate with no validator: HTTP 503
RefuseRequest(l) ==
    /\ pc = "idle"
    /\ ValidationRequestOK(l)
    /\ validator_missing(validator)
    /\ listing' = l
    /\ response' = HTTPException(HTTP_503_SERVICE_UNAVAILABLE)
    /\ pc' = "responded"
    /\ UNCHANGED <<env, validator, full_prompt, calls, outcome>>

\* POST /validate: validate_listing builds the prompt and invokes the service
CallService(l) ==
    /\ pc = "idle"
    /\ ValidationRequestOK(l)
    /\ ~validator_missing(validator)
    /\ listing' = l
    /\ full_prompt' = full_prompt_of(validator.validation_prompt, l)
    /\ calls' = calls + 1
    /\ pc' = "calling"
    /\ UNCHANGED <<env, validator, outcome, response>>

\* return result  /  except Exception: raise HTTPException(500)
endpoint_response(r) ==
    IF r.raises THEN HTTPException(HTTP_500_INTERNAL_SERVER_ERROR) ELSE Ok(r.value)

\* The external call ends with outcome o; validate_listing and the endpoint
\* run to their end.
ServiceEnds(o) ==
    /\ pc = "calling"
    /\ outcome' = o
    /\ response' = endpoint_response(validate_listing(listing, o))
    /\ pc' = "responded"
    /\ UNCHANGED <<env, validator, listing, full_prompt, calls>>

ServiceRaises == ServiceEnds(CallRaises)

ServiceReturnsNoContent == ServiceEnds(NoContent)

ServiceReturns(text) == ServiceEnds(Content(text))

\* The response is sent; nothing of the request is kept.
Finish ==
    /\ pc = "responded"
    /\ pc' = "idle"
    /\ listing' = <<>>
    /\ full_prompt' = <<>>
    /\ calls' = 0
    /\ outcome' = NoOutcome
    /\ response' = NoResponse
    /\ UNCHANGED <<env, validator>>

Next ==
    \/ LoadModule
    \/ \E l \in Listings : RejectRequest(l)
    \/ \E l \in Listings : RefuseRequest(l)
    \/ \E l \in Listings : CallService(l)
    \/ ServiceRaises
    \/ ServiceReturnsNoContent
    \/ \E text \in ProducerTexts : ServiceReturns(text)
    \/ Finish

Spec == Init /\ [][Next]_vars

----------------------------------------------------------------------------
(* Vocabulary of the properties, stated without the operators of the code *)

Configured   == validator.state = "ready"
Unconfigured == OPENAI_API_KEY \in {"unset", "empty"}
Responded    == pc = "responded"
Returned     == Responded /\ response.http = HTTP_200_OK

\* sub occurs in s
Contains(s, sub) ==
    \E i \in 0..(Len(s) - Len(sub)) : SubSeq(s, i + 1, i + Len(sub)) = sub

\* The number of whitespace-delimited tokens: the positions where a token ends
TokenCount(l) ==
    Cardinality({ i \in 1..Len(l) :
                    l[i] \notin {" ", "\n"} /\ (i = Len(l) \/ l[i + 1] \in {" ", "\n"}) })

NoPeriod(l)   == \A i \in 1..Len(l) : l[i] # "."
NoWords(l)    == \A i \in 1..Len(l) : l[i] \in Whitespace
\* Every piece between two periods is empty or whitespace
NoSentence(l) == \A i \in 1..Len(l) : l[i] \in Whitespace \cup {"."}

\* The producer's text is t, bare, fenced or padded with whitespace
Wrappings(t) == { t, Tagged(t), Untagged(t), Padded(t) }
ProducerWrote(ts) ==
    outcome.kind = "text" /\ \E t \in ts : outcome.text \in Wrappings(t)

WellFormedBody(b) ==
    /\ b.status \in StatusLiteral
    /\ b.compliance_score >= ScoreMin /\ b.compliance_score <= ScoreMax
    /\ \A i \in 1..Len(b.issues) :
          b.issues[i].category \in ValidationCategory /\ b.issues[i].severity \in SeverityLiteral
    /\ b.word_count >= 0
    /\ b.reading_level # None

MalformedOutputFallback(b) ==
    /\ b.status = S("non_compliant")
    /\ b.compliance_score = 50
    /\ Len(b.issues) = 1
    /\ b.issues[1].rule_violated = S("Response Format")
    /\ b.issues[1].severity = S("medium")

SystemFallback(b) ==
    /\ b.status = S("non_compliant")
    /\ b.compliance_score = 0
    /\ Len(b.issues) = 1
    /\ b.issues[1].rule_violated = S("System Error")
    /\ b.issues[1].severity = S("high")

\* The listings on which the reading level is a division by zero
OnlyPeriods(l) == NoSentence(l) /\ ~NoWords(l)

----------------------------------------------------------------------------
(* The properties *)

\* C1: with a credential, every request that passes the request model is
\* answered with a well-formed ValidationResponse, whatever the listing and
\* however the external call ended; the endpoint never answers HTTP 500.
C1_AlwaysWellFormedResponse ==
    (Responded /\ Configured /\ ValidationRequestOK(listing)) =>
        /\ response.http = HTTP_200_OK
        /\ WellFormedBody(response.body)

\* C1, on the listings whose reading level can be computed.
C1_UnlessOnlyPeriods ==
    (Responded /\ Configured /\ ValidationRequestOK(listing) /\ ~OnlyPeriods(listing)) =>
        /\ response.http = HTTP_200_OK
        /\ WellFormedBody(response.body)

\* C2: a producer text that is JSON but violates the result shape is answered
\* with the malformed-output fallback (score 5.0, "Response Format", medium),
\* not with the system fallback.
C2_IllShapedGivesMalformedFallback ==
    (Responded /\ ProducerWrote(IllShapedPayloads)) =>
        /\ response.http = HTTP_200_OK
        /\ MalformedOutputFallback(response.body)

\* What the code does with an ill-shaped payload, on the listings whose
\* reading level can be computed: the system fallback.
C2_IllShapedGivesSystemFallback ==
    (Responded /\ ProducerWrote(IllShapedPayloads) /\ ~OnlyPeriods(listing)) =>
        /\ response.http = HTTP_200_OK
        /\ SystemFallback(response.body)

\* C3: a producer text that is no JSON after trimming and fence stripping
\* (the empty and the whitespace-only text included) is answered with
\* status non_compliant, score 5.0 and the single issue "Response Format",
\* with word_count and reading_level computed from the listing.
C3_NonJsonGivesMalformedFallback ==
    (Responded /\ ProducerWrote(NonJsonTexts)) =>
        /\ response.http = HTTP_200_OK
        /\ MalformedOutputFallback(response.body)
        /\ response.body.word_count = TokenCount(listing)
        /\ Return(response.body.reading_level) = _estimate_reading_level(listing)

\* C3, on the listings whose reading level can be computed.
C3_UnlessOnlyPeriods ==
    (Responded /\ ProducerWrote(NonJsonTexts) /\ ~OnlyPeriods(listing)) =>
        /\ response.http = HTTP_200_OK
        /\ MalformedOutputFallback(response.body)
        /\ response.body.word_count = TokenCount(listing)
        /\ Return(response.body.reading_level) = _estimate_reading_level(listing)

\* C4: when the external call raises, the service was invoked exactly once
\* for the request and the answer is the system fallback: non_compliant,
\* score 0.0, the single issue "System Error" of severity high.
C4_CallFailureGivesSystemFallbackWithoutRetry ==
    (Responded /\ outcome.kind = "raises") =>
        /\ calls = 1
        /\ response.http = HTTP_200_OK
        /\ SystemFallback(response.body)

\* C4, on the listings whose reading level can be computed.
C4_UnlessOnlyPeriods ==
    (Responded /\ outcome.kind = "raises" /\ ~OnlyPeriods(listing)) =>
        /\ calls = 1
        /\ response.http = HTTP_200_OK
        /\ SystemFallback(response.body)

\* C5: without a credential at startup the validator is None from the load
\* of the module on and stays so; the external service is never invoked, no
\* ValidationResponse is ever returned and every request that passes the
\* request model is answered HTTP 503.
C5_UnconfiguredAlwaysRefuses ==
    Unconfigured =>
        /\ pc # "boot" => validator.state = "None"
        /\ calls = 0 /\ pc # "calling"
        /\ response.http # HTTP_200_OK /\ response.http # HTTP_500_INTERNAL_SERVER_ERROR
        /\ (Responded /\ ValidationRequestOK(listing)) =>
              response.http = HTTP_503_SERVICE_UNAVAILABLE

\* A request refused for want of a credential.
C5_Witness ==
    /\ Unconfigured /\ Responded /\ ValidationRequestOK(listing)
    /\ response.http = HTTP_503_SERVICE_UNAVAILABLE

\* C6: in every ValidationResponse returned, word_count is the number of
\* whitespace-delimited tokens of the listing, whatever word_count the
\* producer reported.
C6_WordCountIsTokenCount ==
    Returned => response.body.word_count = TokenCount(listing)

\* A parsed producer result that reported 42 words for a listing of fewer.
C6_Witness ==
    /\ Returned /\ outcome.kind = "text" /\ Contains(outcome.text, MWordCount)
    /\ response.body.compliance_score = 75
    /\ TokenCount(listing) = 2

\* C7: a payload wrapped in a tagged or an untagged fence is answered as the
\* bare payload is.
C7_FenceIsTransparent ==
    Responded =>
        \A p \in Payloads :
            (outcome.kind = "text" /\ outcome.text \in {Tagged(p), Untagged(p)}) =>
                response = endpoint_response(validate_listing(listing, Content(p)))

\* C7, for the payloads with no fence marker inside.
C7_UnlessFenceInside ==
    Responded =>
        \A p \in Payloads :
            (outcome.kind = "text" /\ outcome.text \in {Tagged(p), Untagged(p)}
                /\ ~Contains(p, <<Fence>>)) =>
                response = endpoint_response(validate_listing(listing, Content(p)))

\* C8: the reading level of a listing with no period, with no words or with
\* no non-empty sentence is "Unknown".
C8_UnknownReadingLevel ==
    (pc = "calling" /\ (NoPeriod(listing) \/ NoWords(listing) \/ NoSentence(listing))) =>
        _estimate_reading_level(listing) = Return(S("Unknown"))

\* What holds of the code: a listing with no words has the level "Unknown".
C8_NoWordsIsUnknown ==
    (pc = "calling" /\ NoWords(listing)) =>
        _estimate_reading_level(listing) = Return(S("Unknown"))

\* The payloads written from the same status, score, issues and suggestions
RoundTripPayloads ==
    { PFull, PNoReading, PNullReading, PEmptyReading, PNoWordCount, PTextWordCount,
      PFractionWordCount }

ExpectedIssue(category, severity) ==
    [ category      |-> S(category),
      rule_violated |-> S("Superlatives"),
      current_text  |-> <<"amazing", " ", "rewards">>,
      issue         |-> S("Exaggerated claim"),
      suggested_fix |-> S("rewards"),
      severity      |-> S(severity) ]

RoundTrip(p, b) ==
    /\ b.status = S("non_compliant")
    /\ b.compliance_score = 75
    /\ b.issues = << ExpectedIssue("Prohibited Language", "medium"),
                     ExpectedIssue("Regulatory & Compliance", "high") >>
    /\ b.suggestions = <<"Disclose", " ", "the", " ", "APR">>
    /\ b.word_count = TokenCount(listing)
    /\ IF p \in {PFull, PNoWordCount, PTextWordCount, PFractionWordCount}
       THEN b.reading_level = S("Grade 9")
       ELSE Return(b.reading_level) = _estimate_reading_level(listing)

\* C9: a well-formed payload is returned with its status, score, issues (in
\* order) and suggestions, with word_count recomputed and with its
\* reading_level when that is not empty, the estimated one otherwise.
C9_WellFormedPayloadRoundTrip ==
    Responded =>
        \A p \in RoundTripPayloads :
            (outcome.kind = "text" /\ outcome.text \in Wrappings(p)) =>
                response.http = HTTP_200_OK /\ RoundTrip(p, response.body)

\* C9, on the listings whose reading level can be computed.
C9_UnlessOnlyPeriods ==
    (Responded /\ ~OnlyPeriods(listing)) =>
        \A p \in RoundTripPayloads :
            (outcome.kind = "text" /\ outcome.text \in Wrappings(p)) =>
                response.http = HTTP_200_OK /\ RoundTrip(p, response.body)

\* C10: the user prompt of every external call contains the listing verbatim
\* and the output-format instruction block, whether the template was read
\* from the file or replaced by the built-in policy.
C10_PromptCarriesListingAndFormat ==
    pc = "calling" =>
        /\ Contains(full_prompt, listing)
        /\ Contains(full_prompt, structured_output_instruction)

\* C10, when the template file was read.
C10_WhenTemplateFileRead ==
    (pc = "calling" /\ template_file = "present") =>
        /\ Contains(full_prompt, listing)
        /\ Contains(full_prompt, structured_output_instruction)

====
